---- MODULE Spec2Model ----
(***************************************************************************)
(* Model of the object tracker of tritoneye,                               *)
(* src/src/recognition/object_tracking.py: SingleObjectInfo and the        *)
(* tracking part of TEObjectTracker (track_objects_from_contours,          *)
(* flush_objects).                                                         *)
(*                                                                         *)
(* A contour is abstracted to what the tracker reads of it through cv2:    *)
(* its centre of mass, the half extent r of its bounding square and its    *)
(* area (cv2.moments' m00 of a contour is its area).  The sources are      *)
(* Python 2: filter() returns a list, and the areas are floats.            *)
(***************************************************************************)
EXTENDS Integers, Sequences, FiniteSets, TLC

\* ------------------------------------------------------------------------
\* Bounds of the model
MaxFrames == 3        \* frames fed to one tracker
MaxDets == 2          \* detections in one frame
MaxArea == 10         \* areas given to check_area_size_similarity by itself

\* ------------------------------------------------------------------------
\* recognition_conf values (the module is not part of the sources)
NUM_FRAMES_TO_TRACK_PATH == 2          \* K
NUM_FRAMES_TO_CONFIRM_OBJECTS == 1     \* C
NUM_FRAMES_TO_REMOVE_OBJECTS == 2      \* R
\* MAX_RATIO_OF_AREA_CHANGE (T) as the fraction TNum / TDen
MAX_RATIO_OF_AREA_CHANGE == <<3, 10>>

\* ------------------------------------------------------------------------
\* The contours a frame can supply
Cnt(x, y, r, a) == [pos |-> <<x, y>>, r |-> r, area |-> a]

cntO == Cnt(0, 0, 3, 4)       \* at the origin
cntD1 == Cnt(3, 4, 2, 3)      \* distance 5 from the origin, meets cntO's box
cntD2 == Cnt(1, 0, 1, 3)      \* distance 1, meets cntO's box but not cntD1's
cntZero == Cnt(0, 0, 1, 0)    \* degenerate: zero area
cntD3 == Cnt(2, 0, 1, 3)      \* distance 1 from cntD2, on the side away from cntO

Contours == {cntO, cntD1, cntD2, cntZero}

RECURSIVE SeqsUpTo(_, _)
SeqsUpTo(S, n) ==
    IF n = 0 THEN {<<>>}
    ELSE LET shorter == SeqsUpTo(S, n - 1)
         IN shorter \cup {Append(s, c) : s \in {t \in shorter : Len(t) = n - 1}, c \in S}

\* The lists of contours a frame is fed with. The loop of line 148 raises at
\* the first contour of zero area and reads none of the contours after it,
\* so the lists end at their first such contour.
FrameInputs ==
    {cs \in SeqsUpTo(Contours, MaxDets) :
        \A i \in 1..(Len(cs) - 1) : cs[i].area # 0}

Abs(n) == IF n < 0 THEN 0 - n ELSE n

\* ------------------------------------------------------------------------
\* Useful functions

\* cv2.moments(cnt)['m00']
moments_m00(cnt) == cnt.area

\* calc_center_of_mass with a center for every contour
calc_center_of_mass_never_raises(cnt) == FALSE

\* raises ZeroDivisionError when m00 is 0
calc_center_of_mass_raises(cnt) == moments_m00(cnt) = 0
calc_center_of_mass(cnt) == cnt.pos

minAreaRect(cnt) == [center |-> cnt.pos, r |-> cnt.r]
contourArea(cnt) == cnt.area

\* The square of math.sqrt(dx**2 + dy**2); sqrt is strictly increasing on
\* these integers, so min() over the distances is min() over their squares.
calc_dist2(pos1, pos2) ==
    (pos1[1] - pos2[1]) * (pos1[1] - pos2[1]) + (pos1[2] - pos2[2]) * (pos1[2] - pos2[2])

\* ------------------------------------------------------------------------
\* SingleObjectInfo

ObjID(n) == <<"ID", n>>

SingleObjectInfo(ID) ==
    [ID |-> ID,
     prev_contour |-> "None",
     prev_min_rect |-> "None",
     prev_cnt_area |-> "None",
     position_list |-> <<>>,
     last_actual_update |-> 0,
     num_actual_updates |-> 0]

\* deque_append of a deque constructed without maxlen
deque_append_unbounded(dq, x) == Append(dq, x)

\* deque(maxlen = NUM_FRAMES_TO_TRACK_PATH).append
deque_append(dq, x) ==
    IF Len(dq) >= NUM_FRAMES_TO_TRACK_PATH
    THEN Append(SubSeq(dq, Len(dq) - NUM_FRAMES_TO_TRACK_PATH + 2, Len(dq)), x)
    ELSE Append(dq, x)

\* update_movement without line 57: last_actual_update is left as it is
update_movement_no_reset(sobj, cnt, is_actual) ==
    [sobj EXCEPT
        !.prev_contour = cnt,
        !.prev_min_rect = minAreaRect(cnt),
        !.prev_cnt_area = contourArea(cnt),
        !.position_list = deque_append(sobj.position_list, calc_center_of_mass(cnt)),
        !.num_actual_updates = IF is_actual THEN sobj.num_actual_updates + 1
                               ELSE sobj.num_actual_updates]

\* update_movement that restarts the count of line 58 when is_actual is false
update_movement_reset_count(sobj, cnt, is_actual) ==
    [sobj EXCEPT
        !.prev_contour = cnt,
        !.prev_min_rect = minAreaRect(cnt),
        !.prev_cnt_area = contourArea(cnt),
        !.position_list = deque_append(sobj.position_list, calc_center_of_mass(cnt)),
        !.last_actual_update = IF is_actual THEN 0 ELSE sobj.last_actual_update,
        !.num_actual_updates = IF is_actual THEN sobj.num_actual_updates + 1 ELSE 0]

update_movement(sobj, cnt, is_actual) ==
    [sobj EXCEPT
        !.prev_contour = cnt,
        !.prev_min_rect = minAreaRect(cnt),
        !.prev_cnt_area = contourArea(cnt),
        !.position_list = deque_append(sobj.position_list, calc_center_of_mass(cnt)),
        !.last_actual_update = IF is_actual THEN 0 ELSE sobj.last_actual_update,
        !.num_actual_updates = IF is_actual THEN sobj.num_actual_updates + 1
                               ELSE sobj.num_actual_updates]

\* ------------------------------------------------------------------------
\* TEObjectTracker

check_intersection_from_rect(rect1, rect2) ==
    /\ Abs(rect1.center[1] - rect2.center[1]) <= rect1.r + rect2.r
    /\ Abs(rect1.center[2] - rect2.center[2]) <= rect1.r + rect2.r

\* abs(1 - (area1 / area2)) raises ZeroDivisionError when area2 is 0
check_area_size_similarity_raises(area1, area2) == area2 = 0
check_area_size_similarity(area1, area2) ==
    Abs(area2 - area1) * MAX_RATIO_OF_AREA_CHANGE[2] < MAX_RATIO_OF_AREA_CHANGE[1] * area2

\* age_objects without the increment of line 144
age_objects_no_incr(objs) == objs

\* 1. Update the number of frames from the last actual update
age_objects(objs) ==
    [i \in 1..Len(objs) |->
        [objs[i] EXCEPT !.last_actual_update = objs[i].last_actual_update + 1]]

\* the test of lines 157-158 for one tracked object
is_inter_object(sobj, rect, area) ==
    /\ check_intersection_from_rect(rect, sobj.prev_min_rect)
    /\ check_area_size_similarity(area, sobj.prev_cnt_area)

\* the similarity check of line 158 is reached with a zero recorded area
inter_objects_raises(objs, rect, area) ==
    \E i \in 1..Len(objs) :
        /\ check_intersection_from_rect(rect, objs[i].prev_min_rect)
        /\ check_area_size_similarity_raises(area, objs[i].prev_cnt_area)

\* indices (in store order) of the objects appended to inter_objects
inter_objects(objs, rect, area) ==
    SelectSeq([i \in 1..Len(objs) |-> i],
              LAMBDA i : is_inter_object(objs[i], rect, area))

\* min_sobj taking the last entry of the smallest distance
min_sobj_last(objs, inter, pos) ==
    LET d(k) == calc_dist2(pos, objs[inter[k]].position_list[Len(objs[inter[k]].position_list)])
        k == CHOOSE k \in 1..Len(inter) :
                /\ \A j \in 1..Len(inter) : d(k) <= d(j)
                /\ \A j \in (k + 1)..Len(inter) : d(j) > d(k)
    IN inter[k]

\* min(inter_objects, key = itemgetter(1))[0]: the first entry of the
\* smallest distance
min_sobj(objs, inter, pos) ==
    LET d(k) == calc_dist2(pos, objs[inter[k]].position_list[Len(objs[inter[k]].position_list)])
        k == CHOOSE k \in 1..Len(inter) :
                /\ \A j \in 1..Len(inter) : d(k) <= d(j)
                /\ \A j \in 1..(k - 1) : d(j) > d(k)
    IN inter[k]

\* add_new_object with the new object put in front of the store
add_new_object_first(st, new_cnt) ==
    [st EXCEPT
        !.objs = <<update_movement(SingleObjectInfo(ObjID(st.total)), new_cnt, TRUE)>>
                    \o st.objs,
        !.total = st.total + 1,
        !.events = Append(st.events, [ID |-> ObjID(st.total), kind |-> "new"])]

\* add_new_object without line 171: the counter is left as it is
add_new_object_no_incr(st, new_cnt) ==
    [st EXCEPT
        !.objs = Append(st.objs,
                        update_movement(SingleObjectInfo(ObjID(st.total)), new_cnt, TRUE)),
        !.events = Append(st.events, [ID |-> ObjID(st.total), kind |-> "new"])]

\* lines 168-171: a new object for the contour
add_new_object(st, new_cnt) ==
    [st EXCEPT
        !.objs = Append(st.objs,
                        update_movement(SingleObjectInfo(ObjID(st.total)), new_cnt, TRUE)),
        !.total = st.total + 1,
        !.events = Append(st.events, [ID |-> ObjID(st.total), kind |-> "new"])]

\* update_matched with line 165 calling update_movement on sobj, which the
\* loop of line 155 has left at the last object of the store
update_matched_last(st, new_cnt, m) ==
    [st EXCEPT
        !.objs = [st.objs EXCEPT
                     ![Len(st.objs)] = update_movement(st.objs[Len(st.objs)], new_cnt, TRUE)],
        !.events = Append(st.events, [ID |-> st.objs[Len(st.objs)].ID, kind |-> "match"])]

\* line 165: the object at index m of the store takes the contour
update_matched(st, new_cnt, m) ==
    [st EXCEPT
        !.objs = [st.objs EXCEPT ![m] = update_movement(st.objs[m], new_cnt, TRUE)],
        !.events = Append(st.events, [ID |-> st.objs[m].ID, kind |-> "match"])]

\* match_or_add with line 163 reading len(inter_objects) > 1
match_or_add_gt1(st, new_cnt, inter) ==
    IF Len(inter) > 1
    THEN update_matched(st, new_cnt, min_sobj(st.objs, inter, calc_center_of_mass(new_cnt)))
    ELSE add_new_object(st, new_cnt)

\* lines 163-171: Find closest points
match_or_add(st, new_cnt, inter) ==
    IF Len(inter) > 0
    THEN update_matched(st, new_cnt, min_sobj(st.objs, inter, calc_center_of_mass(new_cnt)))
    ELSE add_new_object(st, new_cnt)

\* the body of the loop of line 148 for one contour
match_contour(st, new_cnt) ==
    IF st.err THEN st
    ELSE IF calc_center_of_mass_raises(new_cnt) THEN [st EXCEPT !.err = TRUE]
    ELSE IF inter_objects_raises(st.objs, minAreaRect(new_cnt), contourArea(new_cnt))
    THEN [st EXCEPT !.err = TRUE]
    ELSE match_or_add(st, new_cnt,
                      inter_objects(st.objs, minAreaRect(new_cnt), contourArea(new_cnt)))

\* 2. Update movement for each object (with adding new objects)
RECURSIVE match_contours(_, _, _)
match_contours(st, cs, det) ==
    IF det > Len(cs) THEN st
    ELSE match_contours(match_contour(st, cs[det]), cs, det + 1)

\* remove_old_objects with 1 for conf.NUM_FRAMES_TO_REMOVE_OBJECTS in line 175
remove_old_objects_unmatched(objs) ==
    SelectSeq(objs, LAMBDA sobj : sobj.last_actual_update < 1)

\* remove_old_objects with <= for < in line 175
remove_old_objects_le(objs) ==
    SelectSeq(objs, LAMBDA sobj : sobj.last_actual_update <= NUM_FRAMES_TO_REMOVE_OBJECTS)

\* 3. Remove old objects
remove_old_objects(objs) ==
    SelectSeq(objs, LAMBDA sobj : sobj.last_actual_update < NUM_FRAMES_TO_REMOVE_OBJECTS)

\* update_not_found without the test of lines 180-181
update_not_found_all(objs) ==
    [i \in 1..Len(objs) |-> update_movement(objs[i], objs[i].prev_contour, FALSE)]

\* 4. Update not-found object position
update_not_found(objs) ==
    [i \in 1..Len(objs) |->
        IF objs[i].last_actual_update = 0 THEN objs[i]
        ELSE update_movement(objs[i], objs[i].prev_contour, FALSE)]

\* phases 3 and 4 on the result m of phase 2, which an exception skips;
\* aged is the store after phase 1
end_of_frame(aged, m) ==
    IF m.err
    THEN [objs |-> m.objs, total |-> m.total, events |-> m.events,
          err |-> TRUE, aged |-> aged]
    ELSE [objs |-> update_not_found(remove_old_objects(m.objs)),
          total |-> m.total, events |-> m.events, err |-> FALSE, aged |-> aged]

\* phases 2 to 4 on the store aged by phase 1
match_and_finish(aged, total, cs) ==
    end_of_frame(aged,
                 match_contours([objs |-> aged, total |-> total, events |-> <<>>,
                                 err |-> FALSE], cs, 1))

\* the tracker state after track_objects_from_contours(cs), as a record
\* of the store, the counter, what phase 2 did and whether it raised
track_result(objs, total, cs) == match_and_finish(age_objects(objs), total, cs)

\* flush_objects without line 190: the counter is kept
flush_result_keep_total(objs, total) == [objs |-> <<>>, total |-> total]

\* Delete all tracked objects to newly start
flush_result(objs, total) == [objs |-> <<>>, total |-> 0]

\* ------------------------------------------------------------------------
\* State

VARIABLES
    tracked_objects,      \* self.tracked_objects
    total_seen_objects,   \* self.total_seen_objects
    pc,                   \* "idle", or "error" once a frame has raised
    nframes,              \* frames fed so far
    op,                   \* the last operation: "init", "frame", "flush",
                          \* "query"
    aged,                 \* last_actual_update of each object after phase 1
                          \* of the last frame, in store order
    events,               \* what phase 2 of the last frame did, per contour
    ever_assigned,        \* the IDs given to new objects since construction
    assigned,             \* the IDs given to new objects since the last flush
    life,                 \* per object of the store: the frames it has lived
                          \* and whether a frame after the one creating it
                          \* matched it
    returned,             \* what get_tracked_objects has returned, when it
                          \* is the last operation
    similarity            \* the last call of check_area_size_similarity by
                          \* itself, if any: its arguments and its outcome

vars == <<tracked_objects, total_seen_objects, pc, nframes, op, aged, events,
          ever_assigned, assigned, life, returned, similarity>>

IDsOf(objs) == {objs[i].ID : i \in 1..Len(objs)}

\* the number of contours that events evs matched to the object ID
RECURSIVE Hits(_, _)
Hits(evs, ID) ==
    IF evs = <<>> THEN 0
    ELSE (IF Head(evs).kind = "match" /\ Head(evs).ID = ID THEN 1 ELSE 0)
         + Hits(Tail(evs), ID)

\* the IDs of the objects that the events evs created
NewIDs(evs) == {evs[i].ID : i \in {j \in 1..Len(evs) : evs[j].kind = "new"}}

\* the IDs of the entries of the map lf that are kept, with lf updated for
\* a frame whose phase 2 did evs
RECURSIVE NextLife(_, _, _)
NextLife(lf, objs, evs) ==
    IF objs = <<>> THEN <<>>
    ELSE LET id == Head(objs).ID
             old == \E k \in 1..Len(lf) : lf[k].ID = id
             k0 == CHOOSE k \in 1..Len(lf) : lf[k].ID = id
         IN <<IF old
              THEN [ID |-> id, age |-> lf[k0].age + 1,
                    matched_later |-> lf[k0].matched_later \/ Hits(evs, id) > 0]
              ELSE [ID |-> id, age |-> 0, matched_later |-> FALSE]>>
            \o NextLife(lf, Tail(objs), evs)

RECURSIVE AgedOf(_)
AgedOf(objs) ==
    IF objs = <<>> THEN <<>>
    ELSE <<Head(objs).last_actual_update>> \o AgedOf(Tail(objs))

\* TEObjectTracker.__init__
TEObjectTracker_init == [objs |-> <<>>, total |-> 0]

Init ==
    /\ tracked_objects = TEObjectTracker_init.objs
    /\ total_seen_objects = TEObjectTracker_init.total
    /\ pc = "idle"
    /\ nframes = 0
    /\ op = "init"
    /\ aged = <<>>
    /\ events = <<>>
    /\ ever_assigned = {}
    /\ assigned = {}
    /\ life = <<>>
    /\ returned = "None"
    /\ similarity = <<>>

\* the step of a frame whose result is res
frame_step(res) ==
    /\ tracked_objects' = res.objs
    /\ total_seen_objects' = res.total
    /\ pc' = IF res.err THEN "error" ELSE "idle"
    /\ aged' = AgedOf(res.aged)
    /\ events' = res.events
    /\ ever_assigned' = ever_assigned \cup NewIDs(res.events)
    /\ assigned' = assigned \cup NewIDs(res.events)
    /\ life' = NextLife(life, res.objs, res.events)
    /\ nframes' = nframes + 1
    /\ op' = "frame"
    /\ returned' = "None"
    /\ UNCHANGED similarity

track_objects_from_contours(cs) ==
    /\ pc = "idle"
    /\ nframes < MaxFrames
    /\ frame_step(track_result(tracked_objects, total_seen_objects, cs))

\* the step of flush_objects with result res
flush_step(res) ==
    /\ tracked_objects' = res.objs
    /\ total_seen_objects' = res.total
    /\ op' = "flush"
    /\ aged' = <<>>
    /\ events' = <<>>
    /\ assigned' = {}
    /\ life' = <<>>
    /\ returned' = "None"
    /\ UNCHANGED <<pc, nframes, ever_assigned, similarity>>

flush_objects ==
    /\ pc = "idle"
    /\ op # "flush"
    /\ flush_step(flush_result(tracked_objects, total_seen_objects))

Next ==
    \/ \E cs \in FrameInputs : track_objects_from_contours(cs)
    \/ flush_objects

Spec == Init /\ [][Next]_vars

\* get_tracked_objects with >= for > in line 114
confirmed_objects_ge(objs) ==
    SelectSeq(objs, LAMBDA sobj : sobj.num_actual_updates >= NUM_FRAMES_TO_CONFIRM_OBJECTS)

\* lines 113-115
confirmed_objects(objs) ==
    SelectSeq(objs, LAMBDA sobj : sobj.num_actual_updates > NUM_FRAMES_TO_CONFIRM_OBJECTS)

\* the list that get_tracked_objects returns on the store objs
get_tracked_objects_result(objs, only_now_seen_objects) ==
    IF only_now_seen_objects
    THEN SelectSeq(confirmed_objects(objs), LAMBDA sobj : sobj.last_actual_update = 0)
    ELSE confirmed_objects(objs)

get_tracked_objects(only_now_seen_objects) ==
    /\ pc = "idle"
    /\ returned' = [only_now_seen_objects |-> only_now_seen_objects,
                    objects |-> get_tracked_objects_result(tracked_objects,
                                                           only_now_seen_objects)]
    /\ op' = "query"
    /\ UNCHANGED <<tracked_objects, total_seen_objects, pc, nframes, aged, events,
                   ever_assigned, assigned, life, similarity>>

\* two contours that no object can both be a candidate for
QueryContours == {cntD1, cntD2}

QueryInputs == SeqsUpTo(QueryContours, MaxDets)

\* the tracker with its queries, fed with frames of the contours of
\* QueryContours
NextQuery ==
    \/ \E cs \in QueryInputs : track_objects_from_contours(cs)
    \/ flush_objects
    \/ \E only_now_seen_objects \in BOOLEAN : get_tracked_objects(only_now_seen_objects)

SpecQuery == Init /\ [][NextQuery]_vars

\* contours of which one lies at the same distance from the two others
TieContours == {cntO, cntD2, cntD3}

TieInputs == SeqsUpTo(TieContours, MaxDets)

\* the tracker fed with frames of the contours of TieContours
NextTie ==
    \/ \E cs \in TieInputs : track_objects_from_contours(cs)
    \/ flush_objects

SpecTie == Init /\ [][NextTie]_vars

\* what a call of check_area_size_similarity ends with
check_area_size_similarity_outcome(area1, area2) ==
    IF check_area_size_similarity_raises(area1, area2) THEN "ZeroDivisionError"
    ELSE IF check_area_size_similarity(area1, area2) THEN "True"
    ELSE "False"

check_area_size_similarity_call(area1, area2) ==
    /\ similarity' = <<[area1 |-> area1, area2 |-> area2,
                       outcome |-> check_area_size_similarity_outcome(area1, area2)]>>
    /\ UNCHANGED <<tracked_objects, total_seen_objects, pc, nframes, op, aged,
                   events, ever_assigned, assigned, life, returned>>

\* the areas of the calls of check_area_size_similarity by itself
Areas == 0..MaxArea

\* check_area_size_similarity as a function of its two areas
NextSimilarity == \E area1, area2 \in Areas : check_area_size_similarity_call(area1, area2)

SpecSimilarity == Init /\ [][NextSimilarity]_vars

\* ------------------------------------------------------------------------
\* Properties

\* the step is a frame, and the frame returned without raising
FrameDone == nframes' = nframes + 1 /\ pc' = "idle"

\* the tracker is in a state in which a frame is fed to it
FrameEnabled == pc = "idle" /\ nframes < MaxFrames

\* the object of the store objs that has the given ID
ObjOf(objs, ID) == objs[CHOOSE i \in 1..Len(objs) : objs[i].ID = ID]

LastPos(sobj) == sobj.position_list[Len(sobj.position_list)]

\* C1: within one frame no two contours are matched to the same object
\* that was in the store before the frame began: every object that phase 2
\* matched twice or more was created by this frame.
NoDoubleMatching ==
    \A i \in 1..Len(events) :
        Hits(events, events[i].ID) >= 2 => events[i].ID \in NewIDs(events)

\* The contours d1 and d2 are Scenario D for the store objs: one object,
\* at (0,0), both contours intersect its box and pass the area test, d1 at
\* distance 5 and d2 at distance 1.
ScenarioD(objs, d1, d2) ==
    /\ Len(objs) = 1
    /\ LastPos(objs[1]) = <<0, 0>>
    /\ \A d \in {d1, d2} :
          /\ ~calc_center_of_mass_raises(d)
          /\ is_inter_object(objs[1], minAreaRect(d), contourArea(d))
    /\ calc_dist2(calc_center_of_mass(d1), <<0, 0>>) = 5 * 5
    /\ calc_dist2(calc_center_of_mass(d2), <<0, 0>>) = 1 * 1

\* The outcome of Scenario D in the store after: O has taken d2 and d1 has
\* produced a new object with an ID that no object had before.
ScenarioDOutcome(before, used, after, d1, d2) ==
    /\ before[1].ID \in IDsOf(after)
    /\ LastPos(ObjOf(after, before[1].ID)) = calc_center_of_mass(d2)
    /\ \E i \in 1..Len(after) :
          /\ after[i].ID \notin used \cup {before[1].ID}
          /\ after[i].position_list = <<calc_center_of_mass(d1)>>
          /\ after[i].num_actual_updates = 1

\* C2: Scenario D ends with O updated by D2 and D1 a new object, in
\* whichever order the two contours are supplied.
ScenarioDAnyOrder ==
    [][\A d1, d2 \in Contours :
          \A cs \in {<<d1, d2>>, <<d2, d1>>} :
              (ScenarioD(tracked_objects, d1, d2) /\ track_objects_from_contours(cs))
              => ScenarioDOutcome(tracked_objects, assigned, tracked_objects', d1, d2)]_vars

\* C2 as amended: Scenario D ends with O updated by D2 and D1 a new object
\* when D2 is supplied first and D1 is no candidate for O as D2 has left it;
\* when D1 is supplied first, it is D1 that O is matched with first, and O
\* ends at D1's position unless D2 is matched to O as well.
ScenarioDGreedy ==
    [][\A d1, d2 \in Contours :
          ScenarioD(tracked_objects, d1, d2) =>
             /\ (/\ track_objects_from_contours(<<d2, d1>>)
                 /\ ~is_inter_object(update_movement(age_objects(tracked_objects)[1], d2, TRUE),
                                     minAreaRect(d1), contourArea(d1)))
                => ScenarioDOutcome(tracked_objects, assigned, tracked_objects', d1, d2)
             /\ track_objects_from_contours(<<d1, d2>>)
                => /\ events'[1] = [ID |-> tracked_objects[1].ID, kind |-> "match"]
                   /\ Hits(events', tracked_objects[1].ID) = 1
                      => LastPos(ObjOf(tracked_objects', tracked_objects[1].ID))
                           = calc_center_of_mass(d1)]_vars

\* Scenario D has happened with D2 first: O, created at (0,0), has moved to
\* (1,0), and the contour at (3,4) is a new object of the same frame.
ScenarioDReached ==
    /\ pc = "idle" /\ op = "frame"
    /\ Len(tracked_objects) = 2
    /\ events = <<[ID |-> tracked_objects[1].ID, kind |-> "match"],
                  [ID |-> tracked_objects[2].ID, kind |-> "new"]>>
    /\ tracked_objects[1].position_list = <<<<0, 0>>, <<1, 0>>>>
    /\ tracked_objects[2].position_list = <<<<3, 4>>>>

\* C3: no two objects of the store share an ID, and the IDs (their numbers)
\* are strictly increasing in the order of the store.
IdsUniqueIncreasing ==
    \A i, j \in 1..Len(tracked_objects) :
        i < j => /\ tracked_objects[i].ID # tracked_objects[j].ID
                 /\ tracked_objects[i].ID[2] < tracked_objects[j].ID[2]

\* a store of several objects with an earlier object evicted
IdsAfterEviction ==
    /\ pc = "idle"
    /\ Len(tracked_objects) >= 2
    /\ tracked_objects[1].ID[2] > 0

\* C4: an ID given to a new object was never given to an object before,
\* over the whole life of the tracker, resets included.
IdNeverReassigned ==
    [][nframes' = nframes + 1 => NewIDs(events') \cap ever_assigned = {}]_vars

\* C4 as amended: an ID given to a new object was never given to an object
\* since the last flush_objects (or the construction), evicted objects
\* included.
IdNotReassignedSinceFlush ==
    [][nframes' = nframes + 1 => NewIDs(events') \cap assigned = {}]_vars

\* the first object has been evicted and a frame has created an object since
CreatedAfterEviction ==
    /\ pc = "idle" /\ op = "frame"
    /\ NewIDs(events) # {}
    /\ ObjID(0) \in assigned \ (IDsOf(tracked_objects) \cup NewIDs(events))

\* C5: every object whose last_actual_update is R right after phase 1 of a
\* frame is absent from the store when the frame ends.
EvictionLiveness ==
    [][FrameDone =>
          \A i \in 1..Len(tracked_objects) :
              aged'[i] = NUM_FRAMES_TO_REMOVE_OBJECTS
              => tracked_objects[i].ID \notin IDsOf(tracked_objects')]_vars

\* C5 as amended: every object whose last_actual_update is R right after
\* phase 1 of a frame and that no contour of the frame is matched to is
\* absent from the store when the frame ends.
EvictionOfUnmatched ==
    [][FrameDone =>
          \A i \in 1..Len(tracked_objects) :
              (/\ aged'[i] = NUM_FRAMES_TO_REMOVE_OBJECTS
               /\ Hits(events', tracked_objects[i].ID) = 0)
              => tracked_objects[i].ID \notin IDsOf(tracked_objects')]_vars

\* a frame has aged an object to R, matched nothing and evicted an object
EvictedAtR ==
    /\ pc = "idle" /\ op = "frame"
    /\ \E i \in 1..Len(aged) : aged[i] = NUM_FRAMES_TO_REMOVE_OBJECTS
    /\ \A i \in 1..Len(events) : events[i].kind = "new"
    /\ Len(tracked_objects) < Len(aged) + Cardinality(NewIDs(events))

\* the IDs of the objects that are in the store before and after the step
Staying == IDsOf(tracked_objects) \cap IDsOf(tracked_objects')

\* C6: over a frame, an object that stays in the store and that no contour
\* was matched to has its last_actual_update grown by exactly 1, one that a
\* contour was matched to has it at 0, and it is 0 after the frame only for
\* the objects that the frame matched or created.
FramesSinceDetection ==
    [][FrameDone =>
          /\ \A id \in Staying :
                (ObjOf(tracked_objects', id)).last_actual_update =
                    IF Hits(events', id) = 0
                    THEN (ObjOf(tracked_objects, id)).last_actual_update + 1
                    ELSE 0
          /\ \A i \in 1..Len(tracked_objects') :
                tracked_objects'[i].last_actual_update = 0
                => \/ Hits(events', tracked_objects'[i].ID) > 0
                   \/ tracked_objects'[i].ID \in NewIDs(events')]_vars

\* a frame has left one object unmatched and has matched another
MissedAndMatched ==
    /\ pc = "idle" /\ op = "frame"
    /\ \E i, j \in 1..Len(tracked_objects) :
          /\ tracked_objects[i].last_actual_update = 1
          /\ Hits(events, tracked_objects[i].ID) = 0
          /\ tracked_objects[j].last_actual_update = 0
          /\ Hits(events, tracked_objects[j].ID) > 0

Min(a, b) == IF a < b THEN a ELSE b

\* the positions that the step has appended to the object's position_list:
\* one per contour matched to it, or the one of phase 4
Appended(id) ==
    IF Hits(events', id) > 0 THEN Hits(events', id)
    ELSE IF pc' = "idle" THEN 1 ELSE 0

\* C7: the position_list of every object is never longer than K, and over
\* a frame it is the old list with the new positions appended and the
\* oldest entries beyond K dropped, the order of the others kept.
HistoryBound ==
    [][/\ \A i \in 1..Len(tracked_objects') :
             Len(tracked_objects'[i].position_list) <= NUM_FRAMES_TO_TRACK_PATH
       /\ nframes' = nframes + 1 =>
             \A id \in Staying :
                LET old == (ObjOf(tracked_objects, id)).position_list
                    new == (ObjOf(tracked_objects', id)).position_list
                    kept == Len(new) - Appended(id)
                IN /\ Len(new) = Min(NUM_FRAMES_TO_TRACK_PATH, Len(old) + Appended(id))
                   /\ \A j \in 1..kept : new[j] = old[Len(old) - kept + j]]_vars

\* an object has had more positions appended than K, and holds the last K
HistoryFull ==
    \E i \in 1..Len(tracked_objects) :
        /\ Len(tracked_objects[i].position_list) = NUM_FRAMES_TO_TRACK_PATH
        /\ \E k \in 1..Len(life) :
              /\ life[k].ID = tracked_objects[i].ID
              /\ life[k].age >= NUM_FRAMES_TO_TRACK_PATH
        /\ tracked_objects[i].position_list[1] # LastPos(tracked_objects[i])

\* C8: the num_actual_updates of an object never decreases while the
\* object is in the store, so a confirmed object stays confirmed.
ConfirmationMonotone ==
    [][\A id \in Staying :
          /\ (ObjOf(tracked_objects', id)).num_actual_updates
                >= (ObjOf(tracked_objects, id)).num_actual_updates
          /\ (ObjOf(tracked_objects, id)).num_actual_updates > NUM_FRAMES_TO_CONFIRM_OBJECTS
             => (ObjOf(tracked_objects', id)).num_actual_updates
                   > NUM_FRAMES_TO_CONFIRM_OBJECTS]_vars

\* a confirmed object has gone through a frame that did not match it
ConfirmedAndMissed ==
    /\ pc = "idle" /\ op = "frame"
    /\ \E i \in 1..Len(tracked_objects) :
          /\ tracked_objects[i].num_actual_updates > NUM_FRAMES_TO_CONFIRM_OBJECTS
          /\ tracked_objects[i].last_actual_update > 0

\* C9: Scenario C. An object that no frame after the one creating it has
\* matched is in the store after each of the next R-1 frames, with a
\* last_actual_update that is the number of frames since its creation, and
\* is absent from the store after the R-th.
ScenarioC ==
    [][FrameDone =>
          /\ \A k \in 1..Len(life) :
                (~life[k].matched_later /\ Hits(events', life[k].ID) = 0)
                => IF life[k].age + 1 <= NUM_FRAMES_TO_REMOVE_OBJECTS - 1
                   THEN /\ life[k].ID \in IDsOf(tracked_objects')
                        /\ (ObjOf(tracked_objects', life[k].ID)).last_actual_update
                              = life[k].age + 1
                   ELSE life[k].ID \notin IDsOf(tracked_objects')
          /\ \A k \in 1..Len(life') :
                life'[k].age = 0 =>
                   (ObjOf(tracked_objects', life'[k].ID)).last_actual_update = 0]_vars

\* frame R after the creation of an object that no frame has matched: the
\* store is empty again
ScenarioCReached ==
    /\ pc = "idle" /\ op = "frame"
    /\ aged = <<NUM_FRAMES_TO_REMOVE_OBJECTS>>
    /\ events = <<>>
    /\ tracked_objects = <<>>
    /\ nframes = NUM_FRAMES_TO_REMOVE_OBJECTS + 1

\* C10: flush_objects leaves the store and the counter as __init__ does,
\* so the frame that follows it gives the store, the counter and the IDs
\* that it gives on a tracker just constructed.
ResetLikeFresh ==
    [][/\ op' = "flush" =>
             [objs |-> tracked_objects', total |-> total_seen_objects']
                = TEObjectTracker_init
       /\ (op = "flush" /\ op' = "frame") =>
             \A cs \in FrameInputs :
                track_objects_from_contours(cs) =>
                   /\ tracked_objects' =
                         track_result(TEObjectTracker_init.objs,
                                      TEObjectTracker_init.total, cs).objs
                   /\ total_seen_objects' =
                         track_result(TEObjectTracker_init.objs,
                                      TEObjectTracker_init.total, cs).total
                   /\ NewIDs(events') # {}
                      => ObjID(TEObjectTracker_init.total) \in NewIDs(events')]_vars

\* a tracker that had created two objects was flushed, and the next frame
\* has created the object ID0 again
ResetThenCreated ==
    /\ pc = "idle" /\ op = "frame"
    /\ assigned = {ObjID(0)}
    /\ ever_assigned = {ObjID(0), ObjID(1)}
    /\ IDsOf(tracked_objects) = {ObjID(0)}
    /\ total_seen_objects = 1

\* the lists of contours that are cs in another order (cs included)
Reorderings(cs) ==
    {p \in FrameInputs :
        /\ Len(p) = Len(cs)
        /\ \A c \in Contours :
              Cardinality({i \in 1..Len(p) : p[i] = c})
                 = Cardinality({i \in 1..Len(cs) : cs[i] = c})}

\* the IDs in the store after a frame of contours cs on the present state
IDsAfter(cs) == IDsOf(track_result(tracked_objects, total_seen_objects, cs).objs)

\* C11: whatever the store, two orders of the same contours of a frame give
\* the same set of IDs in the store after the frame.
OrderIndependentIds ==
    \A cs \in FrameInputs : \A p \in Reorderings(cs) : IDsAfter(p) = IDsAfter(cs)

\* The contours of cs do not compete: all are well formed, no object of the
\* store is a candidate for two of them, and none of them passes the test
\* of lines 157-158 against an object that holds another of them.
NonCompeting(objs, cs) ==
    /\ \A i \in 1..Len(cs) : ~calc_center_of_mass_raises(cs[i])
    /\ \A i, j \in 1..Len(cs) :
          i # j =>
             /\ \A k \in 1..Len(objs) :
                   ~(/\ check_intersection_from_rect(minAreaRect(cs[i]), objs[k].prev_min_rect)
                     /\ check_area_size_similarity(contourArea(cs[i]), objs[k].prev_cnt_area)
                     /\ check_intersection_from_rect(minAreaRect(cs[j]), objs[k].prev_min_rect)
                     /\ check_area_size_similarity(contourArea(cs[j]), objs[k].prev_cnt_area))
             /\ ~(/\ check_intersection_from_rect(minAreaRect(cs[i]), minAreaRect(cs[j]))
                  /\ check_area_size_similarity(contourArea(cs[i]), contourArea(cs[j])))

\* the objects of the store objs that were in the store before, by ID
OldObjects(objs) ==
    {objs[i] : i \in {k \in 1..Len(objs) : objs[k].ID \in IDsOf(tracked_objects)}}

\* C11 as amended: two orders of the contours of a frame give the same set
\* of IDs in the store after the frame, and leave the objects that were in
\* the store the same, when the contours of the frame do not compete.
OrderIndependentWhenNoCompetition ==
    FrameEnabled =>
        \A cs \in {c \in FrameInputs : Len(c) > 1 /\ NonCompeting(tracked_objects, c)} :
            \A a \in {track_result(tracked_objects, total_seen_objects, cs).objs} :
                \A b \in {track_result(tracked_objects, total_seen_objects, p).objs :
                              p \in Reorderings(cs)} :
                    /\ IDsOf(b) = IDsOf(a)
                    /\ OldObjects(b) = OldObjects(a)

\* a frame of two contours that do not compete has been processed: the
\* object at (3,4) has taken the one at (3,4), the one at (1,0) is new
TwoIndependentContours ==
    /\ pc = "idle" /\ op = "frame"
    /\ Len(tracked_objects) = 2
    /\ events = <<[ID |-> tracked_objects[1].ID, kind |-> "match"],
                  [ID |-> tracked_objects[2].ID, kind |-> "new"]>>
    /\ tracked_objects[1].position_list = <<<<3, 4>>, <<3, 4>>>>
    /\ tracked_objects[2].position_list = <<<<1, 0>>>>
    /\ NonCompeting(tracked_objects, <<cntD1, cntD2>>)

\* the members of a list
Range(seq) == {seq[i] : i \in 1..Len(seq)}

\* C12: get_tracked_objects() returns exactly the objects of the store whose
\* num_actual_updates is greater than C, with only_now_seen_objects exactly
\* those of them whose last_actual_update is 0, in the order of the store,
\* and it changes neither the store, nor a field of an object, nor the
\* counter.
QueriesReadOnly ==
    [][op' = "query" =>
          /\ Range(returned'.objects) =
                {o \in Range(tracked_objects) :
                    /\ o.num_actual_updates > NUM_FRAMES_TO_CONFIRM_OBJECTS
                    /\ returned'.only_now_seen_objects => o.last_actual_update = 0}
          /\ \A i, j \in 1..Len(returned'.objects) :
                i < j => returned'.objects[i].ID[2] < returned'.objects[j].ID[2]
          /\ tracked_objects' = tracked_objects
          /\ total_seen_objects' = total_seen_objects]_vars

\* the query for the objects seen now has returned one of the two confirmed
\* objects of the store and left out the other, which the last frame missed
QueryAnswered ==
    /\ op = "query"
    /\ returned.only_now_seen_objects
    /\ Len(returned.objects) = 1
    /\ Len(tracked_objects) = 2
    /\ \A i \in 1..2 :
          tracked_objects[i].num_actual_updates > NUM_FRAMES_TO_CONFIRM_OBJECTS
    /\ \E i \in 1..2 : tracked_objects[i].last_actual_update > 0

Malformed(cnt) == moments_m00(cnt) = 0 \/ contourArea(cnt) <= 0

\* the lists with a malformed contour at any place
MalformedInputs ==
    {cs \in SeqsUpTo(Contours, MaxDets) : \E i \in 1..Len(cs) : Malformed(cs[i])}

\* C14: track_objects_from_contours ends in an error on every list of
\* contours that holds a malformed one (no center or no positive area), and
\* no object of the store has been created or updated from such a contour.
InvalidDetection ==
    /\ FrameEnabled =>
          \A cs \in MalformedInputs :
              track_result(tracked_objects, total_seen_objects, cs).err
    /\ \A i \in 1..Len(tracked_objects) :
          /\ tracked_objects[i].prev_cnt_area > 0
          /\ ~Malformed(tracked_objects[i].prev_contour)
    /\ pc = "error" => op = "frame"

\* a frame has raised at a malformed contour after phase 2 has matched a
\* contour before it
RaisedAfterMatch ==
    /\ pc = "error"
    /\ Len(events) = 1
    /\ events[1].kind = "match"

\* the state of the loop of line 148 after the contours of cs, in a frame
\* that starts at the store objs
MidFrame(objs, total, cs) ==
    match_contours([objs |-> age_objects(objs), total |-> total, events |-> <<>>,
                    err |-> FALSE], cs, 1)

\* indices of the objects of objs that meet the box of new_cnt and are of a
\* similar area
Candidates(objs, new_cnt) ==
    {k \in 1..Len(objs) :
        /\ check_intersection_from_rect(minAreaRect(new_cnt), objs[k].prev_min_rect)
        /\ check_area_size_similarity(contourArea(new_cnt), objs[k].prev_cnt_area)}

\* from before to after, new_cnt has gone to a nearest candidate, the one
\* of the smallest id among the nearest
NearestTaken(before, after, new_cnt, cands) ==
    cands # {} =>
        \E k \in cands :
            /\ \A j \in cands :
                  /\ calc_dist2(new_cnt.pos, LastPos(before.objs[k]))
                        <= calc_dist2(new_cnt.pos, LastPos(before.objs[j]))
                  /\ calc_dist2(new_cnt.pos, LastPos(before.objs[k]))
                        = calc_dist2(new_cnt.pos, LastPos(before.objs[j]))
                        => before.objs[k].ID[2] <= before.objs[j].ID[2]
            /\ Len(after.objs) = Len(before.objs)
            /\ after.objs[k].ID = before.objs[k].ID
            /\ after.objs[k].num_actual_updates = before.objs[k].num_actual_updates + 1
            /\ after.objs[k].last_actual_update = 0
            /\ LastPos(after.objs[k]) = new_cnt.pos
            /\ \A j \in 1..Len(before.objs) : j # k => after.objs[j] = before.objs[j]
            /\ after.total = before.total

NearestAfter(before, new_cnt) ==
    \A after \in {match_contour(before, new_cnt)} :
        \A cands \in {Candidates(before.objs, new_cnt)} :
            NearestTaken(before, after, new_cnt, cands)

\* C15: at every contour of a frame with candidates, the object that takes
\* the contour is a candidate at the smallest distance from it, the one of
\* the smallest id among those at that distance; it keeps its ID, its
\* num_actual_updates grows by 1 and no other object changes.
NearestCandidate ==
    FrameEnabled =>
        \A before \in {MidFrame(tracked_objects, total_seen_objects, cs) :
                          cs \in {c \in TieInputs : Len(c) < MaxDets}} :
            \A new_cnt \in TieContours : NearestAfter(before, new_cnt)

\* cntD2 has come at distance 1 from both objects of the store and has gone
\* to the older one
TieToOldest ==
    /\ pc = "idle"
    /\ op = "frame"
    /\ Len(tracked_objects) = 2
    /\ tracked_objects[1].ID[2] < tracked_objects[2].ID[2]
    /\ tracked_objects[1].position_list = <<cntD3.pos, cntD2.pos>>
    /\ tracked_objects[2].position_list = <<cntO.pos, cntO.pos>>
    /\ tracked_objects[2].last_actual_update = 1
    /\ events = <<[ID |-> tracked_objects[1].ID, kind |-> "match"]>>

\* from before to after, new_cnt has made one new object at the end of the
\* store and nothing else; used holds the ids given out since the last
\* flush_objects
Spawned(before, after, new_cnt, used) ==
    /\ Len(after.objs) = Len(before.objs) + 1
    /\ \A j \in 1..Len(before.objs) : after.objs[j] = before.objs[j]
    /\ after.objs[Len(after.objs)].ID \notin used
    /\ after.objs[Len(after.objs)].num_actual_updates = 1
    /\ after.objs[Len(after.objs)].last_actual_update = 0
    /\ after.objs[Len(after.objs)].position_list = <<new_cnt.pos>>
    /\ after.objs[Len(after.objs)].prev_contour = new_cnt
    /\ after.objs[Len(after.objs)].prev_min_rect = minAreaRect(new_cnt)
    /\ after.objs[Len(after.objs)].prev_cnt_area = contourArea(new_cnt)
    /\ after.total = before.total + 1

SpawnAfter(before, new_cnt) ==
    (~before.err /\ Candidates(before.objs, new_cnt) = {}) =>
        \A after \in {match_contour(before, new_cnt)} :
            Spawned(before, after, new_cnt, assigned \cup NewIDs(before.events))

\* C16: a well-formed contour without candidates makes exactly one new
\* object, at the end of the store, with an ID not given out since the last
\* flush_objects, num_actual_updates 1, last_actual_update 0, the position
\* of the contour as its whole position_list and the contour as
\* prev_contour; the counter grows by 1 and no other object changes.
Spawn ==
    FrameEnabled =>
        \A before \in {MidFrame(tracked_objects, total_seen_objects, cs) :
                          cs \in {c \in FrameInputs : Len(c) < MaxDets}} :
            \A new_cnt \in {c \in Contours : ~Malformed(c)} : SpawnAfter(before, new_cnt)

\* a frame of one contour has made a second object behind one it has left
\* unmatched
SpawnedBehind ==
    /\ pc = "idle"
    /\ op = "frame"
    /\ Len(tracked_objects) = 2
    /\ events = <<[ID |-> tracked_objects[2].ID, kind |-> "new"]>>
    /\ tracked_objects[1].last_actual_update = 1
    /\ tracked_objects[2].num_actual_updates = 1
    /\ Len(tracked_objects[2].position_list) = 1
    /\ total_seen_objects = 2

\* C17: an object whose last_actual_update is R - 1 when a frame starts (R
\* after phase 1) and that a contour of the frame is matched to is in the
\* store when the frame ends, with last_actual_update 0.
EvictionAfterMatching ==
    [][FrameDone =>
          \A i \in 1..Len(tracked_objects) :
              (/\ tracked_objects[i].last_actual_update = NUM_FRAMES_TO_REMOVE_OBJECTS - 1
               /\ aged'[i] = NUM_FRAMES_TO_REMOVE_OBJECTS
               /\ Hits(events', tracked_objects[i].ID) > 0)
              => /\ tracked_objects[i].ID \in IDsOf(tracked_objects')
                 /\ (ObjOf(tracked_objects', tracked_objects[i].ID)).last_actual_update = 0]_vars

\* the only object of the store was aged to R by a frame that then matched
\* a contour to it, and it is still there
MatchedAtR ==
    /\ pc = "idle" /\ op = "frame"
    /\ aged = <<NUM_FRAMES_TO_REMOVE_OBJECTS>>
    /\ Len(tracked_objects) >= 1
    /\ Hits(events, tracked_objects[1].ID) > 0
    /\ tracked_objects[1].ID \notin NewIDs(events)
    /\ tracked_objects[1].last_actual_update = 0

\* C18: after a completed frame an object that was in the store before it is
\* in the store if and only if its last_actual_update after phase 2 (0 when
\* matched, else the value after phase 1) is below R, every object the
\* frame created is in the store, nothing else is, and every object of the
\* store has last_actual_update < R; a step that is neither a completed
\* frame nor flush_objects removes no object.
EndOfFrameStore ==
    [][/\ FrameDone =>
             /\ \A i \in 1..Len(tracked_objects) :
                   tracked_objects[i].ID \in IDsOf(tracked_objects')
                   <=> \/ Hits(events', tracked_objects[i].ID) > 0
                       \/ aged'[i] < NUM_FRAMES_TO_REMOVE_OBJECTS
             /\ NewIDs(events') \subseteq IDsOf(tracked_objects')
             /\ IDsOf(tracked_objects') \subseteq IDsOf(tracked_objects) \cup NewIDs(events')
             /\ \A j \in 1..Len(tracked_objects') :
                   tracked_objects'[j].last_actual_update < NUM_FRAMES_TO_REMOVE_OBJECTS
       /\ (~FrameDone /\ op' # "flush") =>
             IDsOf(tracked_objects) \subseteq IDsOf(tracked_objects')]_vars

\* a frame has evicted an unmatched object at R and kept an unmatched one
\* below R
EvictedAndKept ==
    /\ pc = "idle" /\ op = "frame"
    /\ events = <<>>
    /\ Len(aged) = 2
    /\ aged[1] = NUM_FRAMES_TO_REMOVE_OBJECTS
    /\ aged[2] = NUM_FRAMES_TO_REMOVE_OBJECTS - 1
    /\ Len(tracked_objects) = 1
    /\ tracked_objects[1].last_actual_update = NUM_FRAMES_TO_REMOVE_OBJECTS - 1

\* the object old of the store before a frame, as the frame leaves it when
\* no contour is matched to it: aged by phase 1 and given, by phase 4, its
\* last position once more (the oldest dropped at K)
SyntheticOnly(old) ==
    [old EXCEPT
        !.last_actual_update = @ + 1,
        !.position_list =
            (IF Len(@) < NUM_FRAMES_TO_TRACK_PATH THEN @ ELSE Tail(@))
            \o <<LastPos(old)>>]

\* the length that phase 2 has left the position_list of the object new
\* of the store after the step with
RealOnly(new) ==
    IF new.ID \in NewIDs(events')
    THEN Min(NUM_FRAMES_TO_TRACK_PATH, 1 + Hits(events', new.ID))
    ELSE Min(NUM_FRAMES_TO_TRACK_PATH,
             Len((ObjOf(tracked_objects, new.ID)).position_list) + Hits(events', new.ID))

\* C19: in every completed frame phase 4 appends, to every object that is
\* left in the store with last_actual_update > 0, a position equal to its
\* last one and leaves its last_actual_update (as phase 1 has set it),
\* num_actual_updates, ID and prev_contour, prev_min_rect, prev_cnt_area as
\* they are; it leaves the objects with last_actual_update 0 untouched:
\* their position_list is as phase 2 has left it.
SyntheticUpdate ==
    [][FrameDone =>
          \A new \in Range(tracked_objects') :
              IF new.last_actual_update > 0
              THEN /\ new.ID \in IDsOf(tracked_objects)
                   /\ Hits(events', new.ID) = 0
                   /\ new = SyntheticOnly(ObjOf(tracked_objects, new.ID))
              ELSE /\ Len(new.position_list) = RealOnly(new)
                   /\ LastPos(new) = calc_center_of_mass(new.prev_contour)]_vars

\* a frame has created an object, which holds one position, and has left
\* another unmatched, which holds its position twice
SyntheticBesideReal ==
    /\ pc = "idle" /\ op = "frame"
    /\ Len(tracked_objects) = 2
    /\ tracked_objects[1].last_actual_update = 1
    /\ Hits(events, tracked_objects[1].ID) = 0
    /\ Len(tracked_objects[1].position_list) = 2
    /\ tracked_objects[1].position_list[1] = tracked_objects[1].position_list[2]
    /\ tracked_objects[1].num_actual_updates = 1
    /\ tracked_objects[2].last_actual_update = 0
    /\ tracked_objects[2].position_list = <<tracked_objects[2].prev_contour.pos>>

\* the positions that the step has appended to the position_list of an
\* object of the store after it: one when created, one per contour matched
\* to it, one by phase 4 when nothing was matched to it
AppendedInFrame(id) ==
    IF id \in NewIDs(events') THEN 1 + Hits(events', id) ELSE Appended(id)

\* C20: in every completed frame each object of the store after it has had
\* exactly one position appended during the frame, and while it has lived
\* no more than K frames its position_list is as long as the number of
\* frames it has lived.
DenseHistory ==
    [][FrameDone =>
          \A i \in 1..Len(tracked_objects') :
              /\ AppendedInFrame(tracked_objects'[i].ID) = 1
              /\ life'[i].age + 1 <= NUM_FRAMES_TO_TRACK_PATH
                 => Len(tracked_objects'[i].position_list) = life'[i].age + 1]_vars

====
